---- MODULE Spec2Model ----
(***************************************************************************)
(* Model of ethtx (src/main.go): a command line tool with three commands,  *)
(* `new`, `show` and `push`, and the decimal currency parser Parse.        *)
(*                                                                         *)
(* Go strings are modelled as sequences of one-character strings, byte     *)
(* slices as sequences of numbers 0..255, and math/big integers as         *)
(* sign-magnitude records whose magnitude is a little-endian sequence of   *)
(* decimal digits (the empty sequence is zero), so that no value of the    *)
(* program is cut to the width of a machine integer.                       *)
(***************************************************************************)
EXTENDS Integers, Sequences, FiniteSets, TLC

VARIABLES
    pc,        \* position of the process: "main", "prompt", "post", "done", "panic"
    cmd,       \* the command dispatched by main: "none", "new", "show", "push", "parse"
    flags,     \* the flags of `new` (strings), or NoFlags
    argv,      \* the positional arguments of `show` / `push`
    stdin,     \* standard input: "open", or "closed" once a read has met its end
    consumed,  \* the lines yesNoPrompt has read so far
    resp,      \* what came of the HTTP request of postTx, or NoResp
    events,    \* what the process has done, in order (prints, decodes, requests)
    tx,        \* the transaction constructed by `new` or decoded by `show` / `push`
    hexval,    \* `push`: the hex text kept for postTx
    ret,       \* the result of the command / of Parse
    val        \* the argument of Parse

vars == <<pc, cmd, flags, argv, stdin, consumed, resp, events, tx, hexval, ret, val>>

-----------------------------------------------------------------------------
(* Bounds of the model *)

\* longest arbitrary prefix of a Parse input
MaxPre == 2
\* longest run of "0" characters in the middle of a Parse input
MaxZeros == 19
\* longest arbitrary suffix of a Parse input
MaxPost == 1
\* most lines standard input holds before it closes
MaxLines == 3
\* largest --nonce
MaxNonce == 1

-----------------------------------------------------------------------------
(* Sequence helpers *)

Last(s) == s[Len(s)]

Front(s) == SubSeq(s, 1, Len(s) - 1)

Reverse(s) == [i \in 1..Len(s) |-> s[Len(s) + 1 - i]]

RECURSIVE Concat(_)
Concat(ss) == IF ss = <<>> THEN <<>> ELSE Head(ss) \o Concat(Tail(ss))

RECURSIVE Repeat(_, _)
Repeat(x, n) == IF n = 0 THEN <<>> ELSE <<x>> \o Repeat(x, n - 1)

\* all sequences over S of length at most n
RECURSIVE SeqsUpTo(_, _)
SeqsUpTo(S, n) ==
    IF n = 0 THEN {<<>>}
    ELSE LET shorter == SeqsUpTo(S, n - 1)
         IN  shorter \cup {<<x>> \o s : x \in S, s \in {t \in shorter : Len(t) = n - 1}}

-----------------------------------------------------------------------------
(* math/big: natural numbers as little-endian sequences of decimal digits *)

DigitChars == <<"0", "1", "2", "3", "4", "5", "6", "7", "8", "9">>

IsDigit(c) == \E d \in 1..10 : DigitChars[d] = c

DigitVal(c) == (CHOOSE d \in 1..10 : DigitChars[d] = c) - 1

\* nat.norm: drop the most significant zeros
natNorm(a) ==
    LET nz == {i \in 1..Len(a) : a[i] # 0}
    IN  IF nz = {} THEN <<>>
        ELSE SubSeq(a, 1, CHOOSE i \in nz : \A j \in nz : j <= i)

RECURSIVE natAddC(_, _, _)
natAddC(a, b, c) ==
    IF a = <<>> /\ b = <<>> THEN (IF c = 0 THEN <<>> ELSE <<c>>)
    ELSE LET da == IF a = <<>> THEN 0 ELSE Head(a)
             db == IF b = <<>> THEN 0 ELSE Head(b)
             s  == da + db + c
         IN  <<s % 10>> \o natAddC(IF a = <<>> THEN <<>> ELSE Tail(a),
                                   IF b = <<>> THEN <<>> ELSE Tail(b),
                                   s \div 10)

natAdd(a, b) == natAddC(a, b, 0)

\* -1, 0, 1 as a < b, a = b, a > b (both normalised): the longer one is the
\* larger, and of two of one length the most significant difference decides
natCmp(a, b) ==
    IF Len(a) # Len(b) THEN (IF Len(a) < Len(b) THEN -1 ELSE 1)
    ELSE LET diff == {i \in 1..Len(a) : a[i] # b[i]}
         IN  IF diff = {} THEN 0
             ELSE LET m == CHOOSE i \in diff : \A j \in diff : j <= i
                  IN  IF a[m] < b[m] THEN -1 ELSE 1

\* a - b for a >= b
RECURSIVE natSubB(_, _, _)
natSubB(a, b, borrow) ==
    IF a = <<>> THEN <<>>
    ELSE LET db == IF b = <<>> THEN 0 ELSE Head(b)
             d  == Head(a) - db - borrow
         IN  <<IF d < 0 THEN d + 10 ELSE d>>
             \o natSubB(Tail(a), IF b = <<>> THEN <<>> ELSE Tail(b),
                        IF d < 0 THEN 1 ELSE 0)

natSub(a, b) == natNorm(natSubB(a, b, 0))

\* the sum of a[i] * b[k + 1 - i] over the i from lo up with both digits there
RECURSIVE natColumn(_, _, _, _)
natColumn(a, b, k, lo) ==
    IF lo > Len(a) \/ lo > k THEN 0
    ELSE (IF k + 1 - lo <= Len(b) THEN a[lo] * b[k + 1 - lo] ELSE 0)
         + natColumn(a, b, k, lo + 1)

\* carry the column sums cols[k..] into decimal digits
RECURSIVE natCarry(_, _, _)
natCarry(cols, k, c) ==
    IF k > Len(cols) THEN (IF c = 0 THEN <<>> ELSE <<c % 10>> \o natCarry(cols, k, c \div 10))
    ELSE <<(cols[k] + c) % 10>> \o natCarry(cols, k + 1, (cols[k] + c) \div 10)

\* schoolbook multiplication: column sums, then the carries
natMul(a, b) ==
    LET s    == IF Len(a) <= Len(b) THEN a ELSE b
        l    == IF Len(a) <= Len(b) THEN b ELSE a
        cols == [k \in 1..(Len(a) + Len(b)) |-> natColumn(s, l, k, 1)]
    IN  IF a = <<>> \/ b = <<>> THEN <<>> ELSE natNorm(natCarry(cols, 1, 0))

\* how many times b (> 0) fits into r, and what is left
RECURSIVE natFit(_, _, _)
natFit(r, b, n) ==
    IF natCmp(r, b) < 0 THEN [q |-> n, r |-> r]
    ELSE natFit(natSub(r, b), b, n + 1)

\* long division of the digits a[lo..hi] by b (> 0), from the most significant
\* digit down, r being the remainder left by the digits above hi: the upper
\* half of the digits first, then the lower half. The quotient's digits come
\* most significant first.
RECURSIVE natDivR(_, _, _, _, _)
natDivR(a, lo, hi, b, r) ==
    IF lo > hi THEN [q |-> <<>>, r |-> r]
    ELSE IF lo = hi
    THEN LET f == natFit(natNorm(<<a[lo]>> \o r), b, 0)
         IN  [q |-> <<f.q>>, r |-> f.r]
    ELSE LET mid == (lo + hi) \div 2
             up  == natDivR(a, mid + 1, hi, b, r)
             dn  == natDivR(a, lo, mid, b, up.r)
         IN  [q |-> up.q \o dn.q, r |-> dn.r]

natDiv(a, b) ==
    LET d == natDivR(a, 1, Len(a), b, <<>>)
    IN  [q |-> natNorm(Reverse(d.q)), r |-> d.r]

-----------------------------------------------------------------------------
(* math/big: Int *)

\* a *big.Int that points at a number; zero is never negative
MkInt(neg, abs) == [nil |-> FALSE, neg |-> neg /\ abs # <<>>, abs |-> abs]

\* the nil *big.Int
NilInt == [nil |-> TRUE, neg |-> FALSE, abs |-> <<>>]

IntZero == MkInt(FALSE, <<>>)

IntOne == MkInt(FALSE, <<1>>)

IntTen == MkInt(FALSE, <<0, 1>>)

\* (*Int).Add
IntAdd(x, y) ==
    IF x.neg = y.neg THEN MkInt(x.neg, natAdd(x.abs, y.abs))
    ELSE IF natCmp(x.abs, y.abs) >= 0 THEN MkInt(x.neg, natSub(x.abs, y.abs))
    ELSE MkInt(~x.neg, natSub(y.abs, x.abs))

\* (*Int).Sub
IntSub(x, y) == IntAdd(x, MkInt(~y.neg, y.abs))

\* (*Int).Mul
IntMul(x, y) == MkInt(x.neg # y.neg, natMul(x.abs, y.abs))

\* (*Int).QuoRem: truncated division, the remainder takes the sign of x
IntQuoRem(x, y) ==
    LET d == natDiv(x.abs, y.abs)
    IN  [q |-> MkInt(x.neg # y.neg, d.q), r |-> MkInt(x.neg, d.r)]

\* (*Int).Div: Euclidean division, the remainder is never negative
IntDiv(x, y) ==
    LET qr == IntQuoRem(x, y)
    IN  IF qr.r.neg
        THEN (IF y.neg THEN IntAdd(qr.q, IntOne) ELSE IntSub(qr.q, IntOne))
        ELSE qr.q

\* (*Int).Exp(x, y, nil) for y >= 0, by repeated squaring
RECURSIVE IntExp(_, _)
IntExp(x, n) ==
    IF n = 0 THEN IntOne
    ELSE LET h  == IntExp(x, n \div 2)
             sq == IntMul(h, h)
         IN  IF n % 2 = 1 THEN IntMul(sq, x) ELSE sq

\* the digits of s, most significant first, as a little-endian magnitude
natFromChars(s) == [i \in 1..Len(s) |-> DigitVal(s[Len(s) + 1 - i])]

\* SetString as it would be if a string without digits were read as zero
SetStringLax(s) ==
    LET signed == Len(s) > 0 /\ s[1] \in {"+", "-"}
        neg    == Len(s) > 0 /\ s[1] = "-"
        body   == IF signed THEN Tail(s) ELSE s
        ok     == \A i \in 1..Len(body) : IsDigit(body[i])
    IN  [ok |-> ok,
         v  |-> IF ok THEN MkInt(neg, natNorm(natFromChars(body))) ELSE NilInt]

\* (*Int).SetString(s, 10): an optional sign, then one or more decimal digits
\* and nothing else
SetString(s) ==
    LET signed == Len(s) > 0 /\ s[1] \in {"+", "-"}
        neg    == Len(s) > 0 /\ s[1] = "-"
        body   == IF signed THEN Tail(s) ELSE s
        ok     == Len(body) > 0 /\ \A i \in 1..Len(body) : IsDigit(body[i])
    IN  [ok |-> ok,
         v  |-> IF ok THEN MkInt(neg, natNorm(natFromChars(body))) ELSE NilInt]

-----------------------------------------------------------------------------
(* Parse *)

\* the number of decimal places of the base unit: denom is 10^Decimals
Decimals == 18

denom == SetString(<<"1">> \o Repeat("0", Decimals)).v

\* strings.Split(s, sep) for a one-character separator
RECURSIVE Split(_, _)
Split(s, sep) ==
    IF \A i \in 1..Len(s) : s[i] # sep THEN <<s>>
    ELSE LET i == CHOOSE j \in 1..Len(s) :
                      s[j] = sep /\ \A k \in 1..(j - 1) : s[k] # sep
         IN  <<SubSeq(s, 1, i - 1)>> \o Split(SubSeq(s, i + 1, Len(s)), sep)

NoErr == "nil"

Parse(v) ==
    LET parts  == Split(v, ".")
        fval   == IF Len(parts) = 2 THEN parts[1] \o parts[2] ELSE parts[1]
        dec    == IF Len(parts) = 2 THEN IntExp(IntTen, Len(parts[2])) ELSE IntOne
        valint == SetString(fval)
    IN  IF Len(parts) > 2
        THEN [err |-> "invalid currency amount, expected at most one decimal",
              value |-> NilInt]
        ELSE IF ~valint.ok
        THEN [err |-> "error parsing value as currency", value |-> NilInt]
        ELSE [err |-> NoErr, value |-> IntDiv(IntMul(valint.v, denom), dec)]

-----------------------------------------------------------------------------
(* The inputs of Parse *)

ParseChars == {"0", "1", ".", "-", "a"}

\* the inputs the spec and the source name, and some with characters that
\* ParseChars leaves out
ParseExamples ==
    { <<"1">>, <<"1", ".", "5">>, <<"5", ".">>, <<"1", ".", "2", ".", "3">>,
      <<"a", "b", "c">>, <<"+">>, <<"+", "1">>, <<"+", ".", "5">>,
      <<"-", ".", "5">>, <<" ", "1">>, <<"1", " ">>, <<"1", "_", "0">>,
      <<"0", "x", "1">>, <<"1", "e", "2">>, <<"9", "9", ".", "9", "9">>,
      <<"1", ".", "-", "5">>, <<"1", "+", "1">> }

\* a prefix, a run of zeros and a suffix: long enough for more than Decimals
\* decimal places
ParseInputs ==
    { pre \o Repeat("0", k) \o post :
        pre \in SeqsUpTo(ParseChars, MaxPre), k \in 0..MaxZeros,
        post \in SeqsUpTo(ParseChars, MaxPost) }
    \cup ParseExamples

-----------------------------------------------------------------------------
(* encoding/hex and common.FromHex / common.HexToAddress *)

HexLower == <<"0", "1", "2", "3", "4", "5", "6", "7", "8", "9",
              "a", "b", "c", "d", "e", "f">>

HexUpper == <<"0", "1", "2", "3", "4", "5", "6", "7", "8", "9",
              "A", "B", "C", "D", "E", "F">>

\* hex.fromHexChar: the value of a hex character, -1 for any other character
fromHexChar(c) ==
    IF \E i \in 1..16 : HexLower[i] = c
    THEN (CHOOSE i \in 1..16 : HexLower[i] = c) - 1
    ELSE IF \E i \in 1..16 : HexUpper[i] = c
    THEN (CHOOSE i \in 1..16 : HexUpper[i] = c) - 1
    ELSE -1

\* hex.EncodeToString
EncodeToString(b) ==
    [i \in 1..(2 * Len(b)) |->
        IF i % 2 = 1 THEN HexLower[(b[(i + 1) \div 2] \div 16) + 1]
        ELSE HexLower[(b[i \div 2] % 16) + 1]]

\* hex.DecodeString: the bytes of the pairs before the first bad pair, and an
\* error for a character that is no hex digit or for an odd length
DecodeString(s) ==
    LET pairs == Len(s) \div 2
        bad   == {i \in 1..pairs :
                     fromHexChar(s[2 * i - 1]) < 0 \/ fromHexChar(s[2 * i]) < 0}
        n     == IF bad = {} THEN pairs
                 ELSE (CHOOSE i \in bad : \A j \in bad : i <= j) - 1
    IN  [err   |-> bad # {} \/ Len(s) % 2 = 1,
         bytes |-> [i \in 1..n |->
                      16 * fromHexChar(s[2 * i - 1]) + fromHexChar(s[2 * i])]]

\* strings.HasPrefix(s, "0x")
HasPrefix0x(s) == Len(s) >= 2 /\ s[1] = "0" /\ s[2] = "x"

\* a []byte: nil, or a slice with the bytes b
NilBytes == [nil |-> TRUE, b |-> <<>>]

Bytes(b) == [nil |-> FALSE, b |-> b]

\* common.FromHex(s), the results the linked go-ethereum and Go releases can
\* give. All strip "0x" (and "0X"), put a "0" before an odd number of digits
\* and drop the error of hex.DecodeString. On a decoding error the slice is
\* nil (hex.DecodeString of Go before 1.10) or holds the bytes decoded before
\* the error (Go 1.10 and later); for a string of at most one character the
\* releases of go-ethereum with NewTransaction(nonce, to, amount *big.Int,
\* gasLimit *big.Int, ...) return nil, the later ones decode it.
FromHex(s) ==
    LET pre == Len(s) >= 2 /\ s[1] = "0" /\ s[2] \in {"x", "X"}
        t   == IF pre THEN SubSeq(s, 3, Len(s)) ELSE s
        u   == IF Len(t) % 2 = 1 THEN <<"0">> \o t ELSE t
        d   == DecodeString(u)
    IN  {Bytes(d.bytes)}
        \cup (IF d.err THEN {NilBytes} ELSE {})
        \cup (IF Len(s) <= 1 /\ s # <<>> THEN {NilBytes} ELSE {})

AddressLength == 20

\* common.BytesToAddress: the last AddressLength bytes, zeros put before fewer
BytesToAddress(b) ==
    LET c == IF Len(b) > AddressLength
             THEN SubSeq(b, Len(b) - AddressLength + 1, Len(b)) ELSE b
    IN  Repeat(0, AddressLength - Len(c)) \o c

\* common.HexToAddress(s): it returns no error
HexToAddress(s) == {BytesToAddress(x.b) : x \in FromHex(s)}

-----------------------------------------------------------------------------
(* State *)

NoFlags == [nonce |-> 0, gasPrice |-> <<>>, gasLimit |-> <<>>, value |-> <<>>,
            data |-> <<>>, to |-> <<>>, privkey |-> <<>>]

NoTx == [kind |-> "none"]

NoRet == [err |-> "running", value |-> NilInt]

NoResp == [kind |-> "none", status |-> 0, read |-> FALSE]

Init ==
    /\ pc = "main"
    /\ cmd = "none"
    /\ flags = NoFlags
    /\ argv = <<>>
    /\ stdin = "open"
    /\ consumed = <<>>
    /\ resp = NoResp
    /\ events = <<>>
    /\ tx = NoTx
    /\ hexval = <<>>
    /\ ret = NoRet
    /\ val = <<>>

\* one call of Parse with the argument v
CallParse ==
    /\ pc = "main"
    /\ \E v \in ParseInputs :
        /\ pc' = "done"
        /\ cmd' = "parse"
        /\ val' = v
        /\ ret' = Parse(v)
        /\ UNCHANGED <<flags, argv, stdin, consumed, resp, events, tx, hexval>>

NextParse == CallParse

SpecParse == Init /\ [][NextParse]_vars

-----------------------------------------------------------------------------
(* The command `new` *)

Chars(n, c) == Repeat(c, n)

DefaultGasPrice == <<"4", "0", "0", "0", "0", "0", "0", "0", "0", "0">>

DefaultGasLimit == <<"1", "0", "0", "0", "0", "0">>

\* the values of the flags tried
GasPrices == {DefaultGasPrice, <<>>, <<"4", "e", "9">>}

GasLimits == {DefaultGasLimit, <<>>, <<"0", "x", "1", "0">>}

Values == { <<"1">>, <<"1", ".", "5">>, <<"0">>, <<>>, <<"a", "b", "c">>,
            <<"-", "1">>, <<"-", ".", "5">> }

Datas == { <<>>, <<"0", "x">>, <<"1">>, <<"z", "z">>, <<"0", "x", "a", "b">>,
           <<"a", "b", "z">> }

Tos == { <<>>, <<"z", "z">>, <<"0", "x", "0", "1">>,
         <<"0", "x">> \o Chars(2 * AddressLength, "1"),
         Chars(2 * AddressLength + 2, "f") }

Privkeys == { <<>>, <<"0", "1">>, <<"z", "z">>, <<"0", "0">> }

NewFlags ==
    [nonce : 0..MaxNonce, gasPrice : GasPrices, gasLimit : GasLimits,
     value : Values, data : Datas, to : Tos, privkey : Privkeys]

\* toset as it would be if the emptiness of --to were not looked at
TosetAlways(to) == TRUE

\* lines 68-73: a recipient is set exactly for a non-empty --to
Toset(to) == to # <<>>

\* types.NewTransaction: a transaction with a recipient
NewTransaction(nonce, to, amount, gasLimit, gasPrice, data) ==
    [kind |-> "unsigned", nonce |-> nonce, recipient |-> Bytes(to),
     value |-> amount, gasLimit |-> gasLimit, gasPrice |-> gasPrice,
     payload |-> data.b]

\* types.NewContractCreation: a transaction without a recipient
NewContractCreation(nonce, amount, gasLimit, gasPrice, data) ==
    [kind |-> "unsigned", nonce |-> nonce, recipient |-> NilBytes,
     value |-> amount, gasLimit |-> gasLimit, gasPrice |-> gasPrice,
     payload |-> data.b]

\* the chain identifier of types.NewEIP155Signer(big.NewInt(1))
ChainId == 1

\* the byte length of a secp256k1 private key
KeyLength == 32

\* btcec.PrivKeyFromBytes and types.SignTx: signing fails for a key that is
\* zero or longer than KeyLength bytes (keys at or above the group order are
\* outside Privkeys)
SignTx(t, privk) ==
    IF (\A i \in 1..Len(privk) : privk[i] = 0) \/ Len(privk) > KeyLength
    THEN [err |-> "invalid private key", signed |-> NoTx]
    ELSE [err |-> NoErr,
          signed |-> [kind |-> "signed", tx |-> t, chainId |-> ChainId,
                      key |-> privk]]

Ev(e, arg) == [e |-> e, arg |-> arg]

Failed(err, value, t, evs) == [err |-> err, value |-> value, tx |-> t, events |-> evs]

\* mktx.Action from line 75 on: ethval is what Parse returned, gaspr and
\* gaslim what SetString returned, privk what hex.DecodeString returned
MktxSteps(f, toaddr, datab, ethval, gaspr, gaslim, privk) ==
    LET built == IF Toset(f.to)
                 THEN NewTransaction(f.nonce, toaddr, ethval.value, gaslim.v,
                                     gaspr.v, datab)
                 ELSE NewContractCreation(f.nonce, ethval.value, gaslim.v,
                                          gaspr.v, datab)
        evb   == <<Ev(IF Toset(f.to) THEN "NewTransaction" ELSE "NewContractCreation",
                      f.nonce)>>
        sig   == SignTx(built, privk.bytes)
    IN  IF ethval.err # NoErr THEN Failed(ethval.err, NilInt, NoTx, <<>>)
        ELSE IF ~gaspr.ok
        THEN Failed("invalid value for gas price", ethval.value, NoTx, <<>>)
        ELSE IF ~gaslim.ok
        THEN Failed("invalid value for gas limit", ethval.value, NoTx, <<>>)
        ELSE IF datab.nil /\ f.data # <<>>
        THEN Failed("bad hex data", ethval.value, NoTx, <<>>)
        ELSE IF privk.err
        THEN Failed("error decoding private key", ethval.value, built, evb)
        ELSE IF sig.err # NoErr
        THEN Failed(sig.err, ethval.value, built, evb \o <<Ev("SignTx", sig.err)>>)
        ELSE [err |-> NoErr, value |-> ethval.value, tx |-> built,
              events |-> evb \o <<Ev("SignTx", NoErr), Ev("Println(signed)", sig.signed)>>]

\* mktx.Action with the flags f, toaddr the result of common.HexToAddress
\* (the zero address without --to) and datab the result of common.FromHex
Mktx(f, toaddr, datab) ==
    MktxSteps(f, toaddr, datab, Parse(f.value), SetString(f.gasPrice),
              SetString(f.gasLimit), DecodeString(f.privkey))

ZeroAddress == Repeat(0, AddressLength)

\* main dispatches `new`: the whole of mktx.Action
MktxAction ==
    /\ pc = "main"
    /\ \E f \in NewFlags :
        \E toaddr \in (IF f.to # <<>> THEN HexToAddress(f.to) ELSE {ZeroAddress}),
           datab \in FromHex(f.data) :
            LET r == Mktx(f, toaddr, datab)
            IN  /\ pc' = "done"
                /\ cmd' = "new"
                /\ flags' = f
                /\ tx' = r.tx
                /\ events' = r.events
                /\ ret' = [err |-> r.err, value |-> r.value]
                /\ UNCHANGED <<argv, stdin, consumed, resp, hexval, val>>

-----------------------------------------------------------------------------
(* rlp.DecodeBytes into a types.Transaction *)

\* the number of fields of a transaction: nonce, gas price, gas limit,
\* recipient, amount, payload, V, R, S
TxFields == 9

\* the largest size a one-byte RLP header can give; inputs stay shorter, and
\* a header that announces more than the input holds is an error
RlpShortMax == 55

\* the bytes of a uint64
Uint64Bytes == 8

\* the item that starts at b[pos], the list's payload ending at b[last]:
\* a single byte below 0x80, or a string with a one-byte header 0x80 + size.
\* A one-byte string that should have been a single byte, a longer header,
\* a nested list and a size past the end of the list are errors.
rlpItem(b, pos, last) ==
    LET h == b[pos]
    IN  IF h < 128 THEN [ok |-> TRUE, val |-> <<h>>, next |-> pos + 1]
        ELSE IF h <= 128 + RlpShortMax
        THEN LET size == h - 128
                 v    == SubSeq(b, pos + 1, pos + size)
             IN  IF pos + size > last THEN [ok |-> FALSE, val |-> <<>>, next |-> pos]
                 ELSE IF size = 1 /\ v[1] < 128
                 THEN [ok |-> FALSE, val |-> <<>>, next |-> pos]
                 ELSE [ok |-> TRUE, val |-> v, next |-> pos + size + 1]
        ELSE [ok |-> FALSE, val |-> <<>>, next |-> pos]

\* the items of the list payload b[pos..last], or an error
RECURSIVE rlpItems(_, _, _)
rlpItems(b, pos, last) ==
    IF pos > last THEN [ok |-> TRUE, items |-> <<>>]
    ELSE LET it == rlpItem(b, pos, last)
         IN  IF ~it.ok THEN [ok |-> FALSE, items |-> <<>>]
             ELSE LET rest == rlpItems(b, it.next, last)
                  IN  [ok |-> rest.ok, items |-> <<it.val>> \o rest.items]

\* an integer field may not start with a zero byte
rlpCanonInt(v) == v = <<>> \/ v[1] # 0

\* rlp.DecodeBytes(v, &tx): one list that fills the input, of exactly
\* TxFields items, canonical integers, a nonce of at most 8 bytes and a
\* recipient that is empty or AddressLength bytes long
DecodeBytes(b) ==
    LET size  == b[1] - 192
        its   == rlpItems(b, 2, Len(b))
        f     == its.items
        bad   == [err |-> TRUE, tx |-> NoTx]
    IN  IF b = <<>> THEN bad
        ELSE IF b[1] < 192 \/ b[1] > 192 + RlpShortMax THEN bad
        ELSE IF 1 + size # Len(b) THEN bad
        ELSE IF ~its.ok \/ Len(f) # TxFields THEN bad
        ELSE IF ~rlpCanonInt(f[1]) \/ Len(f[1]) > Uint64Bytes THEN bad
        ELSE IF \E i \in {2, 3, 5, 7, 8, 9} : ~rlpCanonInt(f[i]) THEN bad
        ELSE IF Len(f[4]) \notin {0, AddressLength} THEN bad
        ELSE [err |-> FALSE,
              tx  |-> [kind |-> "decoded", nonce |-> f[1], gasPrice |-> f[2],
                       gasLimit |-> f[3],
                       recipient |-> IF f[4] = <<>> THEN NilBytes ELSE Bytes(f[4]),
                       value |-> f[5], payload |-> f[6],
                       v |-> f[7], r |-> f[8], s |-> f[9]]]

-----------------------------------------------------------------------------
(* The arguments of `show` and `push` *)

\* a signed contract creation and a signed call, encoded
TxCreate == <<201, 1, 1, 1, 128, 1, 128, 37, 1, 1>>

TxCall == <<221, 1, 1, 1, 148>> \o Repeat(17, AddressLength) \o <<1, 128, 37, 1, 1>>

\* the bytes put in the place of one byte of an encoding
TamperBytes == {0, 1, 127, 128, 129, 148, 184, 192, 200, 201, 202, 248}

Replace(b, i, x) == [j \in 1..Len(b) |-> IF j = i THEN x ELSE b[j]]

\* the encodings, cut short, with a byte added, and with one byte replaced
ArgBytes ==
    {SubSeq(TxCreate, 1, n) : n \in 0..Len(TxCreate)}
    \cup {SubSeq(TxCall, 1, n) : n \in {Len(TxCall) - 1, Len(TxCall)}}
    \cup {TxCreate \o <<x>> : x \in {0, 1, 128}}
    \cup {Replace(TxCreate, i, x) : i \in 1..Len(TxCreate), x \in TamperBytes}
    \cup {Replace(TxCall, i, x) : i \in 1..6, x \in TamperBytes}

ToUpper(s) ==
    [i \in 1..Len(s) |->
        IF fromHexChar(s[i]) >= 0 THEN HexUpper[fromHexChar(s[i]) + 1] ELSE s[i]]

\* the hex texts: of every encoding, bare and after "0x", and texts that are
\* no hex: an odd length, a character that is no hex digit, the prefix "0X"
ArgTexts ==
    {EncodeToString(b) : b \in ArgBytes}
    \cup {<<"0", "x">> \o EncodeToString(b) : b \in ArgBytes}
    \cup { ToUpper(EncodeToString(TxCreate)),
           <<"0", "X">> \o EncodeToString(TxCreate),
           Front(EncodeToString(TxCreate)),
           EncodeToString(TxCreate) \o <<"z", "z">>,
           <<"z">> \o Tail(EncodeToString(TxCreate)),
           <<"0", "x", "0", "x">> \o EncodeToString(TxCreate),
           <<" ">> \o EncodeToString(TxCreate) }

\* c.Args(): no argument, or one
ArgLists == {<<>>} \cup {<<t>> : t \in ArgTexts}

-----------------------------------------------------------------------------
(* The commands `show` and `push` *)

\* the decoding as it would be if the error of hex.DecodeString were dropped
\* and the bytes decoded so far were used
DecodeArgLax(args) ==
    LET arg    == args[1]
        hexstr == IF HasPrefix0x(arg) THEN SubSeq(arg, 3, Len(arg)) ELSE arg
        v      == DecodeString(hexstr)
        d      == DecodeBytes(v.bytes)
    IN  IF args = <<>>
        THEN [err |-> "must pass hex encoded transaction to parse", tx |-> NoTx,
              hexval |-> <<>>, events |-> <<>>]
        ELSE IF d.err
        THEN [err |-> "rlp: decoding error", tx |-> NoTx, hexval |-> hexstr,
              events |-> <<Ev("hex.DecodeString", hexstr),
                           Ev("rlp.DecodeBytes", v.bytes)>>]
        ELSE [err |-> NoErr, tx |-> d.tx, hexval |-> hexstr,
              events |-> <<Ev("hex.DecodeString", hexstr),
                           Ev("rlp.DecodeBytes", v.bytes)>>]

\* lines 123-140 and 150-167: the argument is there, "0x" is cut off, the
\* text is decoded as hex and the bytes as a transaction
DecodeArg(args) ==
    LET arg    == args[1]
        hexstr == IF HasPrefix0x(arg) THEN SubSeq(arg, 3, Len(arg)) ELSE arg
        v      == DecodeString(hexstr)
        d      == DecodeBytes(v.bytes)
    IN  IF args = <<>>
        THEN [err |-> "must pass hex encoded transaction to parse", tx |-> NoTx,
              hexval |-> <<>>, events |-> <<>>]
        ELSE IF v.err
        THEN [err |-> "encoding/hex: invalid input", tx |-> NoTx, hexval |-> hexstr,
              events |-> <<Ev("hex.DecodeString", hexstr)>>]
        ELSE IF d.err
        THEN [err |-> "rlp: decoding error", tx |-> NoTx, hexval |-> hexstr,
              events |-> <<Ev("hex.DecodeString", hexstr),
                           Ev("rlp.DecodeBytes", v.bytes)>>]
        ELSE [err |-> NoErr, tx |-> d.tx, hexval |-> hexstr,
              events |-> <<Ev("hex.DecodeString", hexstr),
                           Ev("rlp.DecodeBytes", v.bytes)>>]

\* main dispatches `show`: the whole of showTx.Action
ShowTxAction ==
    /\ pc = "main"
    /\ \E args \in ArgLists :
        LET d == DecodeArg(args)
        IN  /\ pc' = "done"
            /\ cmd' = "show"
            /\ argv' = args
            /\ tx' = d.tx
            /\ events' = IF d.err = NoErr
                         THEN d.events \o <<Ev("Println(tx)", d.tx)>>
                         ELSE d.events
            /\ ret' = [err |-> d.err, value |-> NilInt]
            /\ UNCHANGED <<flags, stdin, consumed, resp, hexval, val>>

\* main dispatches `push`: pushTx.Action up to the first read of the prompt
PushTxAction ==
    /\ pc = "main"
    /\ \E args \in ArgLists :
        LET d == DecodeArg(args)
        IN  /\ cmd' = "push"
            /\ argv' = args
            /\ tx' = d.tx
            /\ hexval' = d.hexval
            /\ IF d.err = NoErr
               THEN /\ pc' = "prompt"
                    /\ events' = d.events
                                  \o <<Ev("Println(your transaction:)", <<>>),
                                       Ev("Println(tx)", d.tx),
                                       Ev("Printf(submit? [y/N])", <<>>)>>
                    /\ ret' = NoRet
               ELSE /\ pc' = "done"
                    /\ events' = d.events
                    /\ ret' = [err |-> d.err, value |-> NilInt]
            /\ UNCHANGED <<flags, stdin, consumed, resp, val>>

-----------------------------------------------------------------------------
(* yesNoPrompt *)

LettersUpper == <<"A", "B", "C", "D", "E", "F", "G", "H", "I", "J", "K", "L", "M",
                  "N", "O", "P", "Q", "R", "S", "T", "U", "V", "W", "X", "Y", "Z">>

LettersLower == <<"a", "b", "c", "d", "e", "f", "g", "h", "i", "j", "k", "l", "m",
                  "n", "o", "p", "q", "r", "s", "t", "u", "v", "w", "x", "y", "z">>

\* strings.ToLower
ToLower(s) ==
    [i \in 1..Len(s) |->
        IF \E k \in 1..26 : LettersUpper[k] = s[i]
        THEN LettersLower[CHOOSE k \in 1..26 : LettersUpper[k] = s[i]]
        ELSE s[i]]

\* the lines standard input may hold
Lines == { <<>>, <<"y">>, <<"Y">>, <<"n">>, <<"N">>, <<"q">>,
           <<"y", "e", "s">>, <<"N", "O">> }

\* the switch as it would be if the case "n" fell through to the case "y"
yesNoSwitchThrough(line, def) ==
    LET v == ToLower(line)
    IN  IF v = <<>> THEN (IF def THEN "true" ELSE "false")
        ELSE IF v \in {<<"y">>, <<"n">>} THEN "true"
        ELSE "again"

\* the switch of yesNoPrompt on one line: "true", "false", or "again"
yesNoSwitch(line, def) ==
    LET v == ToLower(line)
    IN  IF v = <<>> THEN (IF def THEN "true" ELSE "false")
        ELSE IF v = <<"y">> THEN "true"
        ELSE IF v = <<"n">> THEN "false"
        ELSE "again"

\* the default as it would be if the prompt were asked with true
PromptDefaultYes == TRUE

\* line 171: yesNoPrompt("submit?", false)
PromptDefault == FALSE

\* scan.Scan() returns a line: yesNoPrompt returns, or asks again; pushTx
\* returns nil on false and goes on to postTx on true
PromptScan ==
    /\ pc = "prompt"
    /\ Len(consumed) < MaxLines
    /\ \E line \in Lines :
        LET sw == yesNoSwitch(line, PromptDefault)
        IN  /\ consumed' = Append(consumed, line)
            /\ pc' = CASE sw = "true" -> "post"
                        [] sw = "false" -> "done"
                        [] OTHER -> "prompt"
            /\ events' = IF sw = "again"
                         THEN Append(events, Ev("Println(please type 'y' or 'n')", line))
                         ELSE events
            /\ ret' = IF sw = "false" THEN [err |-> NoErr, value |-> NilInt] ELSE ret
            /\ UNCHANGED <<cmd, flags, argv, stdin, resp, tx, hexval, val>>

\* the end of standard input as it would be if yesNoPrompt returned its
\* default there
PromptEOFDefault ==
    /\ pc = "prompt"
    /\ stdin' = "closed"
    /\ pc' = IF PromptDefault THEN "post" ELSE "done"
    /\ ret' = IF PromptDefault THEN ret ELSE [err |-> NoErr, value |-> NilInt]
    /\ UNCHANGED <<cmd, flags, argv, consumed, resp, events, tx, hexval, val>>

\* scan.Scan() returns false, standard input has ended: yesNoPrompt panics
PromptEOF ==
    /\ pc = "prompt"
    /\ stdin' = "closed"
    /\ pc' = "panic"
    /\ ret' = [err |-> "panic: unexpected termination of stdin", value |-> NilInt]
    /\ UNCHANGED <<cmd, flags, argv, consumed, resp, events, tx, hexval, val>>

-----------------------------------------------------------------------------
(* postTx *)

StatusOK == 200

\* what http.Post and ioutil.ReadAll can come to: no response, or a response
\* with a status, whose body is read or fails to be read
HttpOutcomes ==
    {[kind |-> "error", status |-> 0, read |-> FALSE]}
    \cup [kind : {"response"}, status : {StatusOK, 403, 500}, read : BOOLEAN]

\* postTx(hex) with the outcome o of the request
postTx(hex, o) ==
    LET req == Ev("http.Post", hex)
    IN  IF o.kind = "error"
        THEN [err |-> "http.Post failed", events |-> <<req>>]
        ELSE IF ~o.read
        THEN [err |-> "ioutil.ReadAll failed", events |-> <<req>>]
        ELSE [err |-> NoErr, events |-> <<req, Ev("Println(body)", o.status)>>]

\* line 175: return postTx(hexval)
PostTx ==
    /\ pc = "post"
    /\ \E o \in HttpOutcomes :
        LET r == postTx(hexval, o)
        IN  /\ pc' = "done"
            /\ resp' = o
            /\ events' = events \o r.events
            /\ ret' = [err |-> r.err, value |-> NilInt]
            /\ UNCHANGED <<cmd, flags, argv, stdin, consumed, tx, hexval, val>>

-----------------------------------------------------------------------------
(* The program *)

Next ==
    \/ MktxAction
    \/ ShowTxAction
    \/ PushTxAction
    \/ PromptScan
    \/ PromptEOF
    \/ PostTx

Spec == Init /\ [][Next]_vars

\* the runs of `push` alone
NextPush ==
    \/ PushTxAction
    \/ PromptScan
    \/ PromptEOF
    \/ PostTx

\* `push` alone; the process does not stop while it can take a step: the read
\* of standard input returns with a line or with the end of the input, and
\* the HTTP request returns
FairPush ==
    Init /\ [][NextPush]_vars /\ WF_vars(PromptScan \/ PromptEOF) /\ WF_vars(PostTx)

-----------------------------------------------------------------------------
(* What the claims about Parse say, computed from the characters of the   *)
(* input alone                                                             *)

Count(s, c) == Cardinality({i \in 1..Len(s) : s[i] = c})

\* the input without its decimal points
Fval(s) ==
    LET keep == {i \in 1..Len(s) : s[i] # "."}
        idx(k) == CHOOSE i \in keep : Cardinality({j \in keep : j <= i}) = k
    IN  [k \in 1..Cardinality(keep) |-> s[idx(k)]]

\* the number of characters after the first decimal point
Places(s) ==
    IF Count(s, ".") = 0 THEN 0
    ELSE Len(s) - (CHOOSE i \in 1..Len(s) : s[i] = "." /\ \A j \in 1..(i - 1) : s[j] # ".")

HasDigit(s) == \E i \in 1..Len(s) : IsDigit(s[i])

\* a base-10 integer literal: an optional sign, then digits, at least one
IsIntLiteral(s) ==
    \E from \in 1..2 :
        /\ from = 2 => (Len(s) >= 1 /\ s[1] \in {"+", "-"})
        /\ Len(s) >= from
        /\ \A i \in from..Len(s) : IsDigit(s[i])

\* the digit characters of a literal, without its sign and its leading zeros
Significant(s) ==
    LET nz == {i \in 1..Len(s) : IsDigit(s[i]) /\ s[i] # "0"}
    IN  IF nz = {} THEN <<>>
        ELSE SubSeq(s, CHOOSE i \in nz : \A j \in nz : i <= j, Len(s))

\* fval * 10^Decimals / 10^P, truncated toward zero, by moving the decimal
\* point: Decimals zeros are written after the digits and the last P
\* characters are struck; the sign stays unless nothing is left
Truncated(s) ==
    LET f      == Fval(s)
        shift  == Significant(f) \o Repeat("0", Decimals)
        kept   == IF Places(s) >= Len(shift) THEN <<>>
                  ELSE SubSeq(shift, 1, Len(shift) - Places(s))
        digits == [i \in 1..Len(kept) |-> DigitVal(kept[Len(kept) + 1 - i])]
    IN  [nil |-> FALSE,
         neg |-> f[1] = "-" /\ Significant(kept) # <<>>,
         abs |-> IF Significant(kept) = <<>> THEN <<>> ELSE digits]

\* C1: every input with at most one decimal point whose characters without
\* the point are an integer literal is parsed without error to
\* fval * 10^18 / 10^P truncated toward zero; "1" gives 10^18, "1.5" gives
\* 15 * 10^17 and "0.000000000000000001" gives 1.
C1_ParseTruncates ==
    (cmd = "parse" /\ pc = "done" /\ Count(val, ".") <= 1 /\ IsIntLiteral(Fval(val)))
    => /\ ret.err = NoErr
       /\ ret.value = Truncated(val)
       /\ val = <<"1">> => ret.value = MkInt(FALSE, Repeat(0, Decimals) \o <<1>>)
       /\ val = <<"1", ".", "5">>
            => ret.value = MkInt(FALSE, Repeat(0, Decimals - 1) \o <<5, 1>>)
       /\ val = <<"0", ".">> \o Repeat("0", Decimals - 1) \o <<"1">>
            => ret.value = MkInt(FALSE, <<1>>)

\* C2: Parse fails, returning no Amount, when the input has more than one
\* decimal point or is not an integer literal once the point is taken out;
\* an input without any digit fails; and zero is returned only for inputs
\* whose digits are all zeros or whose value truncates to zero.
C2_ParseRejects ==
    (cmd = "parse" /\ pc = "done")
    => /\ (Count(val, ".") > 1 \/ ~IsIntLiteral(Fval(val)))
            => (ret.err # NoErr /\ ret.value = NilInt)
       /\ ~HasDigit(val) => ret.err # NoErr
       /\ (ret.err = NoErr /\ ret.value = IntZero)
            => \/ Significant(Fval(val)) = <<>>
               \/ Len(Significant(Fval(val))) + Decimals <= Places(val)

\* Parse has rejected an input with more than one decimal point
C2_Witness ==
    cmd = "parse" /\ pc = "done" /\ Count(val, ".") > 1 /\ HasDigit(val)
    /\ ret.err # NoErr

-----------------------------------------------------------------------------
(* What the claims about the commands say *)

\* the events of the run with the name e
EventsOf(e) == {i \in 1..Len(events) : events[i].e = e}

Happened(e) == EventsOf(e) # {}

\* an event named a never comes after an event named b
Before(a, b) == \A i \in EventsOf(a), j \in EventsOf(b) : i < j

\* s without a leading "0x"
Strip0x(s) ==
    IF Len(s) >= 2 /\ SubSeq(s, 1, 2) = <<"0", "x">> THEN SubSeq(s, 3, Len(s)) ELSE s

HexDigitChars ==
    {"0", "1", "2", "3", "4", "5", "6", "7", "8", "9",
     "a", "b", "c", "d", "e", "f", "A", "B", "C", "D", "E", "F"}

\* hex text: an even number of hex digits
IsHexText(s) == Len(s) % 2 = 0 /\ \A i \in 1..Len(s) : s[i] \in HexDigitChars

\* a flag with a character that is no hex digit, after "0x" if it is there
BadHexFlag(s) ==
    LET t == IF Len(s) >= 2 /\ s[1] = "0" /\ s[2] \in {"x", "X"}
             THEN SubSeq(s, 3, Len(s)) ELSE s
    IN  \E i \in 1..Len(t) : t[i] \notin HexDigitChars

\* the canonical encoding of one field
EncodeField(v) == IF Len(v) = 1 /\ v[1] < 128 THEN v ELSE <<128 + Len(v)>> \o v

\* the canonical encoding of a decoded transaction, as lower-case hex text
EncodeTxHex(t) ==
    LET body == Concat(<<EncodeField(t.nonce), EncodeField(t.gasPrice),
                         EncodeField(t.gasLimit), EncodeField(t.recipient.b),
                         EncodeField(t.value), EncodeField(t.payload),
                         EncodeField(t.v), EncodeField(t.r), EncodeField(t.s)>>)
    IN  EncodeToString(<<192 + Len(body)>> \o body)

\* a line the prompt takes for an answer
Recognised(line) == ToLower(line) \in {<<>>, <<"y">>, <<"n">>}

\* the first answer among the lines read, or 0
FirstAnswer ==
    IF \E k \in 1..Len(consumed) : Recognised(consumed[k])
    THEN CHOOSE k \in 1..Len(consumed) :
             Recognised(consumed[k]) /\ \A j \in 1..(k - 1) : ~Recognised(consumed[j])
    ELSE 0

\* C3: no Amount that Parse returns is negative, and so the value of no
\* transaction that `new` builds is negative.
C3_AmountNonNegative ==
    /\ (cmd \in {"new", "parse"} /\ ~ret.value.nil) => ~ret.value.neg
    /\ (cmd = "new" /\ tx # NoTx) => ~tx.value.neg

\* C4: in a run of `push` whose transaction decodes, once the answer read at
\* the prompt is "n" in either case, the command has returned without an
\* error and postTx has not been called.
C4_NoMeansNoBroadcast ==
    (cmd = "push" /\ tx # NoTx /\ consumed # <<>>
        /\ ToLower(Last(consumed)) = <<"n">>)
    => /\ pc = "done"
       /\ ret.err = NoErr
       /\ ~Happened("http.Post")
       /\ resp = NoResp

\* `push` has read "N" after a line that is no answer
C4_Witness ==
    /\ cmd = "push" /\ pc = "done" /\ Len(consumed) >= 2
    /\ Last(consumed) = <<"N">> /\ ret.err = NoErr

\* C5: postTx returns an error when the request cannot be completed, when
\* the status of the response is not 200 and when the body cannot be read,
\* prints no body then, and makes exactly one request.
C5_PostTxFails ==
    (cmd = "push" /\ pc = "done" /\ resp # NoResp)
    => /\ Cardinality(EventsOf("http.Post")) = 1
       /\ (resp.kind = "error" \/ resp.status # StatusOK \/ ~resp.read)
            => (ret.err # NoErr /\ ~Happened("Println(body)"))

C7_BadArgumentFails ==
    cmd \in {"show", "push"}
    => LET shown == \/ Happened("Println(tx)")
                    \/ Happened("Println(your transaction:)")
                    \/ Happened("Printf(submit? [y/N])")
                    \/ Happened("http.Post")
                    \/ consumed # <<>>
                    \/ pc \in {"prompt", "post", "panic"}
           good  == /\ argv # <<>>
                    /\ IsHexText(Strip0x(argv[1]))
                    /\ tx # NoTx
                    /\ EncodeTxHex(tx) = ToLower(Strip0x(argv[1]))
       IN  /\ argv = <<>> => (pc = "done" /\ ret.err # NoErr /\ events = <<>>)
           /\ shown => good
           /\ ~good => (pc = "done" /\ ret.err # NoErr /\ tx = NoTx)

\* `push` has refused hex text that is no transaction
C7_Witness ==
    /\ cmd = "push" /\ pc = "done" /\ argv # <<>>
    /\ IsHexText(Strip0x(argv[1])) /\ Len(argv[1]) > 2
    /\ ret.err # NoErr /\ Happened("rlp.DecodeBytes")

\* C8: the transaction `new` builds has no recipient exactly when --to is
\* the empty string, and a recipient of 20 bytes for every other --to.
C8_RecipientIffTo ==
    (cmd = "new" /\ tx # NoTx)
    => /\ tx.recipient.nil <=> flags.to = <<>>
       /\ flags.to # <<>> => Len(tx.recipient.b) = 20
       /\ Happened("NewContractCreation") <=> flags.to = <<>>
       /\ Happened("NewTransaction") <=> flags.to # <<>>

\* `new` has built a call from a --to that is no hex text, and signed it
C8_Witness ==
    /\ cmd = "new" /\ tx # NoTx /\ flags.to = <<"z", "z">>
    /\ ~tx.recipient.nil /\ ret.err = NoErr

\* C9: a run of `push` decodes, displays, prompts and broadcasts in this
\* order; postTx is called at most once, and only when the first line that
\* is "", "y" or "n" in either case is "y"; an empty line is a No; any other
\* line only asks again; and the text sent is the hex text that was decoded
\* and displayed, without "0x".
C9_PushOrder ==
    cmd = "push"
    => /\ Before("hex.DecodeString", "rlp.DecodeBytes")
       /\ Before("rlp.DecodeBytes", "Println(your transaction:)")
       /\ Before("Println(your transaction:)", "Println(tx)")
       /\ Before("Println(tx)", "Printf(submit? [y/N])")
       /\ Before("Printf(submit? [y/N])", "Println(please type 'y' or 'n')")
       /\ Before("Printf(submit? [y/N])", "http.Post")
       /\ Before("Println(please type 'y' or 'n')", "http.Post")
       /\ Before("http.Post", "Println(body)")
       /\ Cardinality(EventsOf("http.Post")) <= 1
       /\ (pc = "post" \/ Happened("http.Post"))
            => /\ FirstAnswer > 0
               /\ ToLower(consumed[FirstAnswer]) = <<"y">>
               /\ Happened("Println(tx)") /\ Happened("Printf(submit? [y/N])")
       /\ (FirstAnswer > 0 /\ consumed[FirstAnswer] = <<>>)
            => (pc = "done" /\ ret.err = NoErr /\ ~Happened("http.Post"))
       /\ FirstAnswer > 0 => FirstAnswer = Len(consumed)
       /\ Cardinality(EventsOf("Println(please type 'y' or 'n')"))
            = Cardinality({k \in 1..Len(consumed) : ~Recognised(consumed[k])})
       /\ \A i \in EventsOf("http.Post") :
            /\ events[i].arg = Strip0x(argv[1])
            /\ \A j \in EventsOf("hex.DecodeString") : events[j].arg = events[i].arg
            /\ \A j \in EventsOf("Println(tx)") :
                 EncodeTxHex(events[j].arg) = ToLower(events[i].arg)

\* `push` has sent a transaction given with "0x", after a line that was no
\* answer and a "Y"
C9_Witness ==
    /\ cmd = "push" /\ pc = "done" /\ Happened("http.Post")
    /\ Len(consumed) >= 2 /\ Last(consumed) = <<"Y">>
    /\ Len(argv[1]) >= 2 /\ SubSeq(argv[1], 1, 2) = <<"0", "x">>

\* C10: the prompt of `push` ends: with a decision, or, standard input
\* having closed (at once, or after lines that are no answer), with a
\* panic; then postTx is never called and `push` does not return.
C10_PromptEnds ==
    /\ (pc = "prompt") ~> (pc \in {"post", "done", "panic"})
    /\ [](stdin = "closed"
            => /\ pc = "panic"
               /\ ret.err \notin {NoErr, NoRet.err}
               /\ ~Happened("http.Post")
               /\ resp = NoResp
               /\ \A k \in 1..Len(consumed) : ~Recognised(consumed[k]))
    /\ [](pc \in {"done", "post"} /\ cmd = "push" /\ tx # NoTx => FirstAnswer > 0)

\* standard input has closed after a line that is no answer
C10_Witness ==
    /\ cmd = "push" /\ pc = "panic" /\ stdin = "closed" /\ consumed # <<>>

====
